---- MODULE Spec2Model ----
(***************************************************************************)
(* Shelly schedule automation: the reconcile-and-verify workflow of        *)
(* main.py and setup_sunrise_sunset.py against the device's schedule       *)
(* store (shelly_client.py), with the configuration check of config.py     *)
(* and the schedule resolution of schedule_calculator.py.                  *)
(*                                                                         *)
(* Text is modelled as a sequence of one-character strings, an instant as  *)
(* the number of seconds since today's local midnight (it may be negative  *)
(* or exceed a day after an offset is added).  A failed RPC leaves the     *)
(* device store unchanged; the process is the only writer of the store.    *)
(***************************************************************************)
EXTENDS Integers, Sequences, FiniteSets, TLC

\* Largest number of stale schedules the device holds before the run.
MaxStale == 3
\* Largest number of configured schedule definitions.
MaxSpecs == 3

VARIABLES
    entry,          \* which script runs: "main" (main.py) or "setup" (setup_sunrise_sunset.py)
    yaml,           \* the content of config.yaml
    device,         \* the device's schedule store (sequence of jobs)
    nextId,         \* the id the device gives to the next created job
    pc,             \* position of the script
    existing,       \* main(): existing_schedules, result of show_existing_schedules
    schedules,      \* delete_all_schedules(): the local list it iterates over
    di,             \* delete_all_schedules(): index of the next list entry
    deleted_count,  \* delete_all_schedules(): tally of successful deletes
    sun_times,      \* main(): sun_times / times
    ci,             \* create_schedules(): index of the next schedule definition
    resolved,       \* create_schedules(): resolved (instant, action) pairs
    after,          \* verify_schedules(): <<schedules_after>>, <<>> before the list returned
    rpc,            \* history: every RPC call sent to the device, in order
    error,          \* history: kind of the fatal error that ended the run
    phases,         \* history: the workflow phases the run has been in, in order
    exit            \* <<>> while running, <<status>> once the process has exited

vars == <<entry, yaml, device, nextId, pc, existing, schedules, di, deleted_count,
          sun_times, ci, resolved, after, rpc, error, phases, exit>>

-----------------------------------------------------------------------------
(* Text helpers *)

Digits == <<"0", "1", "2", "3", "4", "5", "6", "7", "8", "9">>

DigitValue(c) == CHOOSE d \in 0..9 : Digits[d + 1] = c

IsDigit(c) == \E d \in 0..9 : Digits[d + 1] = c

\* str(n) inside an f-string, for a non-negative n.
RECURSIVE IntToStr(_)
IntToStr(n) == IF n < 10 THEN <<Digits[n + 1]>>
               ELSE IntToStr(n \div 10) \o <<Digits[(n % 10) + 1]>>

\* Value of a non-empty string of digits.
RECURSIVE DigitsToInt(_)
DigitsToInt(s) == IF Len(s) = 0 THEN 0
                  ELSE 10 * DigitsToInt(SubSeq(s, 1, Len(s) - 1)) + DigitValue(s[Len(s)])

\* int(s): an optional sign followed by at least one digit; anything else
\* raises ValueError (ok = FALSE).
ParseInt(s) ==
    LET signed == Len(s) > 0 /\ s[1] \in {"+", "-"}
        body   == IF signed THEN SubSeq(s, 2, Len(s)) ELSE s
    IN IF Len(body) > 0 /\ \A k \in 1..Len(body) : IsDigit(body[k])
       THEN [ok |-> TRUE,
             value |-> IF signed /\ s[1] = "-" THEN 0 - DigitsToInt(body)
                       ELSE DigitsToInt(body)]
       ELSE [ok |-> FALSE, value |-> 0]

\* s.split(sep)
RECURSIVE Split(_, _)
Split(s, sep) ==
    IF \A k \in 1..Len(s) : s[k] # sep THEN <<s>>
    ELSE LET p == CHOOSE k \in 1..Len(s) : s[k] = sep /\ \A j \in 1..(k - 1) : s[j] # sep
         IN <<SubSeq(s, 1, p - 1)>> \o Split(SubSeq(s, p + 1, Len(s)), sep)

SUNRISE == <<"s", "u", "n", "r", "i", "s", "e">>
SUNSET == <<"s", "u", "n", "s", "e", "t">>

-----------------------------------------------------------------------------
(* schedule_calculator.py *)

SecondsPerMinute == 60
SecondsPerHour == 3600
MinutesPerHour == 60
HoursPerDay == 24

\* The hour kept within the day by saturating instead of wrapping.
HourOf_Saturating(t) ==
    IF t < 0 THEN 0
    ELSE IF t \div SecondsPerHour >= HoursPerDay THEN HoursPerDay - 1
    ELSE t \div SecondsPerHour

\* dt.hour and dt.minute of an instant: its wall-clock time of day.
HourOf(t) == (t \div SecondsPerHour) % HoursPerDay
MinuteOf(t) == (t \div SecondsPerMinute) % MinutesPerHour

\* The zone names ZoneInfo knows; any other name raises ZoneInfoNotFoundError.
KnownZones == {"Europe/Tallinn", "UTC"}

\* timedelta(seconds=schedule.offset) instead of minutes.
calculate_schedule_time_OffsetSeconds(schedule, times, timezone) ==
    IF timezone \notin KnownZones THEN [ok |-> FALSE, instant |-> 0]
    ELSE IF schedule.time \in {SUNRISE, SUNSET}
    THEN LET base_time == IF schedule.time = SUNRISE THEN times.sunrise ELSE times.sunset
         IN [ok |-> TRUE, instant |-> base_time + schedule.offset]
    ELSE LET parts  == Split(schedule.time, ":")
             hour   == ParseInt(parts[1])
             minute == IF Len(parts) = 2 THEN ParseInt(parts[2]) ELSE [ok |-> FALSE, value |-> 0]
         IN IF /\ Len(parts) = 2
               /\ hour.ok /\ minute.ok
               /\ hour.value \in 0..23
               /\ minute.value \in 0..59
            THEN [ok |-> TRUE,
                  instant |-> hour.value * SecondsPerHour + minute.value * SecondsPerMinute]
            ELSE [ok |-> FALSE, instant |-> 0]

\* The offset added to a clock literal as well.
calculate_schedule_time_OffsetAlways(schedule, times, timezone) ==
    IF timezone \notin KnownZones THEN [ok |-> FALSE, instant |-> 0]
    ELSE IF schedule.time \in {SUNRISE, SUNSET}
    THEN LET base_time == IF schedule.time = SUNRISE THEN times.sunrise ELSE times.sunset
         IN [ok |-> TRUE, instant |-> base_time + SecondsPerMinute * schedule.offset]
    ELSE LET parts  == Split(schedule.time, ":")
             hour   == ParseInt(parts[1])
             minute == IF Len(parts) = 2 THEN ParseInt(parts[2]) ELSE [ok |-> FALSE, value |-> 0]
         IN IF /\ Len(parts) = 2
               /\ hour.ok /\ minute.ok
               /\ hour.value \in 0..23
               /\ minute.value \in 0..59
            THEN [ok |-> TRUE,
                  instant |-> hour.value * SecondsPerHour + minute.value * SecondsPerMinute
                              + SecondsPerMinute * schedule.offset]
            ELSE [ok |-> FALSE, instant |-> 0]

\* The hour and minute taken modulo their range instead of being rejected.
calculate_schedule_time_NoRangeCheck(schedule, times, timezone) ==
    IF timezone \notin KnownZones THEN [ok |-> FALSE, instant |-> 0]
    ELSE IF schedule.time \in {SUNRISE, SUNSET}
    THEN LET base_time == IF schedule.time = SUNRISE THEN times.sunrise ELSE times.sunset
         IN [ok |-> TRUE, instant |-> base_time + SecondsPerMinute * schedule.offset]
    ELSE LET parts  == Split(schedule.time, ":")
             hour   == ParseInt(parts[1])
             minute == IF Len(parts) = 2 THEN ParseInt(parts[2]) ELSE [ok |-> FALSE, value |-> 0]
         IN IF /\ Len(parts) = 2
               /\ hour.ok /\ minute.ok
            THEN [ok |-> TRUE,
                  instant |-> (hour.value % HoursPerDay) * SecondsPerHour
                              + (minute.value % MinutesPerHour) * SecondsPerMinute]
            ELSE [ok |-> FALSE, instant |-> 0]

\* calculate_schedule_time: [ok, instant]; ok = FALSE when it raises.
calculate_schedule_time(schedule, times, timezone) ==
    IF timezone \notin KnownZones THEN [ok |-> FALSE, instant |-> 0]
    ELSE IF schedule.time \in {SUNRISE, SUNSET}
    THEN LET base_time == IF schedule.time = SUNRISE THEN times.sunrise ELSE times.sunset
         IN [ok |-> TRUE, instant |-> base_time + SecondsPerMinute * schedule.offset]
    ELSE LET parts  == Split(schedule.time, ":")
             hour   == ParseInt(parts[1])
             minute == IF Len(parts) = 2 THEN ParseInt(parts[2]) ELSE [ok |-> FALSE, value |-> 0]
         IN IF /\ Len(parts) = 2
               /\ hour.ok /\ minute.ok
               /\ hour.value \in 0..23
               /\ minute.value \in 0..59
            THEN [ok |-> TRUE,
                  instant |-> hour.value * SecondsPerHour + minute.value * SecondsPerMinute]
            ELSE [ok |-> FALSE, instant |-> 0]

\* The hour written before the minute.
time_to_cron_HourFirst(dt) ==
    <<"0", " ">> \o IntToStr(HourOf(dt)) \o <<" ">> \o IntToStr(MinuteOf(dt))
        \o <<" ", "*", " ", "*", " ", "*">>

\* time_to_cron: f"0 {dt.minute} {dt.hour} * * *"
time_to_cron(dt) ==
    <<"0", " ">> \o IntToStr(MinuteOf(dt)) \o <<" ">> \o IntToStr(HourOf(dt))
        \o <<" ", "*", " ", "*", " ", "*">>

-----------------------------------------------------------------------------
(* config.py *)

Required == {"shelly_ip", "switch_id", "latitude", "longitude", "timezone",
             "schedules", "log_level", "log_file"}

AllowedLogLevels == {"DEBUG", "INFO", "WARNING", "ERROR"}

\* v.upper() for the log level names that occur.
Upper(v) == IF v = "info" THEN "INFO" ELSE v

validate_log_level(v) == Upper(v) \in AllowedLogLevels

\* A range check written with "or".
validate_latitude_Or(v) == -90 <= v \/ v <= 90

validate_latitude(v) == -90 <= v /\ v <= 90

validate_longitude(v) == -180 <= v /\ v <= 180

\* Schedule: action is Literal["on", "off"].
ValidSchedule(s) == s.action \in {"on", "off"}

\* ShellyConfig.from_yaml: [ok, config]; ok = FALSE when it raises
\* (FileNotFoundError or a pydantic ValidationError).
from_yaml(y) ==
    IF /\ y.exists
       /\ Required \subseteq DOMAIN y.data
       /\ validate_log_level(y.data["log_level"])
       /\ validate_latitude(y.data["latitude"])
       /\ validate_longitude(y.data["longitude"])
       /\ \A k \in 1..Len(y.data["schedules"]) : ValidSchedule(y.data["schedules"][k])
    THEN [ok |-> TRUE,
          config |-> [shelly_ip |-> y.data["shelly_ip"],
                      switch_id |-> y.data["switch_id"],
                      latitude |-> y.data["latitude"],
                      longitude |-> y.data["longitude"],
                      timezone |-> y.data["timezone"],
                      schedules |-> y.data["schedules"],
                      log_level |-> Upper(y.data["log_level"]),
                      log_file |-> y.data["log_file"]]]
    ELSE [ok |-> FALSE, config |-> [schedules |-> <<>>]]

\* The configuration the run works with, once loaded.
Config == from_yaml(yaml).config

\* config.get_schedules()
get_schedules == Config.schedules

-----------------------------------------------------------------------------
(* The configurations and device stores a run may start from *)

Latitudes == {-91, -90, 59, 90, 91}
Longitudes == {-181, -180, 24, 180, 181}
SwitchIds == {0, 1}
ZoneNames == {"Europe/Tallinn", "Mars/Olympus"}
LogLevels == {"INFO", "info", "verbose"}

SpecPool ==
    { [time |-> SUNRISE, action |-> "off", offset |-> 0],
      [time |-> SUNSET, action |-> "on", offset |-> -30],
      [time |-> <<"2", "2", ":", "3", "0">>, action |-> "off", offset |-> 15],
      [time |-> <<"2", "5", ":", "6", "1">>, action |-> "on", offset |-> 0] }

RECURSIVE SeqsUpTo(_, _)
SeqsUpTo(S, n) ==
    IF n = 0 THEN {<<>>}
    ELSE LET shorter == SeqsUpTo(S, n - 1)
         IN shorter \cup {Append(q, x) : q \in shorter, x \in S}

Nominal ==
    [shelly_ip |-> "192.168.1.50", switch_id |-> 0, latitude |-> 59, longitude |-> 24,
     timezone |-> "Europe/Tallinn",
     schedules |-> <<[time |-> SUNSET, action |-> "on", offset |-> -30],
                     [time |-> <<"2", "2", ":", "3", "0">>, action |-> "off", offset |-> 15]>>,
     log_level |-> "INFO", log_file |-> "logs/shelly.log"]

YamlData ==
    {[Nominal EXCEPT !.latitude = lat, !.longitude = lon] :
        lat \in Latitudes, lon \in Longitudes}
    \cup {[Nominal EXCEPT !.schedules = q, !.switch_id = sw] :
        q \in SeqsUpTo(SpecPool, MaxSpecs), sw \in SwitchIds}
    \cup {[Nominal EXCEPT !.timezone = z] : z \in ZoneNames}
    \cup {[Nominal EXCEPT !.log_level = l] : l \in LogLevels}
    \cup {[Nominal EXCEPT !.schedules = <<[time |-> SUNRISE, action |-> "toggle", offset |-> 0]>>]}
    \cup {[f \in Required \ {m} |-> Nominal[f]] : m \in Required}

YamlFiles == {[exists |-> TRUE, data |-> d] : d \in YamlData}
             \cup {[exists |-> FALSE, data |-> Nominal]}

\* schedule.get("id") of a job that carries no id (None).
NoId == 0

StaleTimespec == <<"0", " ", "0", " ", "7", " ", "*", " ", "*", " ", "*">>

\* Stores of k stale jobs with distinct ids 1..k, of which at most one has
\* lost its id.
StaleStores ==
    UNION {{[j \in 1..k |-> [id |-> IF j = lost THEN NoId ELSE j,
                             timespec |-> StaleTimespec, on |-> TRUE, switch |-> 0]] :
              lost \in 0..k} : k \in 0..MaxStale}

\* Sunrise and sunset of the day, as astral computes them.
SunTimesSet == {[sunrise |-> 6 * SecondsPerHour + 12 * SecondsPerMinute + 17,
                 sunset |-> 19 * SecondsPerHour + 40 * SecondsPerMinute + 5],
                [sunrise |-> 8 * SecondsPerHour + 59 * SecondsPerMinute,
                 sunset |-> 15 * SecondsPerHour + 5 * SecondsPerMinute + 59]}

-----------------------------------------------------------------------------
(* shelly_client.py: the RPC boundary *)

\* One entry of the call history.  spec is the index of the schedule
\* definition a Schedule.Create call was made for (0 otherwise).
Call(method, id, timespec, on, switch, spec, ok) ==
    [method |-> method, id |-> id, timespec |-> timespec, on |-> on,
     switch |-> switch, spec |-> spec, ok |-> ok]

ListCall(ok) == Call("Schedule.List", NoId, <<>>, FALSE, 0, 0, ok)
InfoCall(ok) == Call("Shelly.GetDeviceInfo", NoId, <<>>, FALSE, 0, 0, ok)
DeleteCall(id, ok) == Call("Schedule.Delete", id, <<>>, FALSE, 0, 0, ok)
\* id is the id the device returned for the created job.
CreateCall(id, timespec, switch, on, spec, ok) ==
    Call("Schedule.Create", id, timespec, on, switch, spec, ok)

\* The device's store after Schedule.Delete {"id": id} succeeded.
RECURSIVE RemoveJob(_, _)
RemoveJob(store, id) ==
    IF store = <<>> THEN <<>>
    ELSE IF Head(store).id = id THEN Tail(store)
    ELSE <<Head(store)>> \o RemoveJob(Tail(store), id)

HasJob(store, id) == \E k \in 1..Len(store) : store[k].id = id

\* The job the device stores after Schedule.Create succeeded.
NewJob(id, timespec, switch, on) ==
    [id |-> id, timespec |-> timespec, on |-> on, switch |-> switch]

-----------------------------------------------------------------------------
(* main.py and setup_sunrise_sunset.py *)

\* main.py line 12.
SWITCH_ID == 0

\* The switch id the script passes to create_schedule.
SwitchArg == IF entry = "main" THEN SWITCH_ID ELSE Config.switch_id

\* The workflow phase of the specification that a script position lies in.
Phase ==
    CASE pc \in {"boot", "load"} -> "START"
      [] pc \in {"get_info", "snapshot"} -> "SNAPSHOT"
      [] pc \in {"purge", "purge_loop"} -> "PURGE"
      [] pc \in {"sun", "create"} -> "RESOLVE_AND_CREATE"
      [] pc \in {"verify", "summary"} -> "VERIFY"
      [] pc = "done" -> "DONE"
      [] pc = "failed" -> "FAILED"

\* Record the phase the step has led to.
Track == phases' = IF Phase' # Phase THEN Append(phases, Phase') ELSE phases

\* A handler that logs the error and lets the process end normally.
Fail_NoExitCall(kind) ==
    /\ pc' = "failed"
    /\ error' = kind
    /\ exit' = <<0>>

\* sys.exit(1) after a fatal error of the given kind.
Fail(kind) ==
    /\ pc' = "failed"
    /\ error' = kind
    /\ exit' = <<1>>

Init ==
    /\ entry \in {"main", "setup"}
    /\ yaml \in YamlFiles
    /\ device \in StaleStores
    /\ nextId = Len(device) + 1
    /\ pc = "boot"
    /\ existing = <<>>
    /\ schedules = <<>>
    /\ di = 1
    /\ deleted_count = 0
    /\ sun_times = [sunrise |-> 0, sunset |-> 0]
    /\ ci = 1
    /\ resolved = <<>>
    /\ after = <<>>
    /\ rpc = <<>>
    /\ error = "none"
    /\ phases = <<"START">>
    /\ exit = <<>>

\* The __main__ block: load the configuration once to set up logging.
Boot ==
    /\ pc = "boot"
    /\ IF from_yaml(yaml).ok
       THEN /\ pc' = "load"
            /\ UNCHANGED <<error, exit>>
       ELSE Fail("ConfigInvalid")
    /\ UNCHANGED <<entry, yaml, device, nextId, existing, schedules, di, deleted_count,
                   sun_times, ci, resolved, after, rpc>>
    /\ Track

\* main(): ShellyConfig.from_yaml(), log_configuration, ShellyClient(...).
LoadConfig ==
    /\ pc = "load"
    /\ IF from_yaml(yaml).ok
       THEN /\ pc' = IF entry = "setup" THEN "get_info" ELSE "snapshot"
            /\ UNCHANGED <<error, exit>>
       ELSE Fail("ConfigInvalid")
    /\ UNCHANGED <<entry, yaml, device, nextId, existing, schedules, di, deleted_count,
                   sun_times, ci, resolved, after, rpc>>
    /\ Track

\* setup_sunrise_sunset.main(): client.get_device_info().
GetDeviceInfo ==
    /\ pc = "get_info"
    /\ \E ok \in BOOLEAN :
        /\ rpc' = Append(rpc, InfoCall(ok))
        /\ IF ok
           THEN /\ pc' = "snapshot"
                /\ UNCHANGED <<error, exit>>
           ELSE Fail("RpcFailed")
    /\ UNCHANGED <<entry, yaml, device, nextId, existing, schedules, di, deleted_count,
                   sun_times, ci, resolved, after>>
    /\ Track

\* show_existing_schedules(client): the list is returned to main() in main.py
\* and only logged in setup_sunrise_sunset.py.
ShowExisting ==
    /\ pc = "snapshot"
    /\ \E ok \in BOOLEAN :
        /\ rpc' = Append(rpc, ListCall(ok))
        /\ IF ok
           THEN /\ existing' = device
                /\ pc' = "purge"
                /\ UNCHANGED <<error, exit>>
           ELSE /\ Fail("RpcFailed")
                /\ UNCHANGED existing
    /\ UNCHANGED <<entry, yaml, device, nextId, schedules, di, deleted_count,
                   sun_times, ci, resolved, after>>
    /\ Track

\* An empty device treated as an error.
PurgeMain_EmptyIsError ==
    /\ pc = "purge"
    /\ entry = "main"
    /\ Fail(IF existing # <<>> THEN "TypeError" ELSE "NoSchedules")
    /\ UNCHANGED <<entry, yaml, device, nextId, existing, schedules, di, deleted_count,
                   sun_times, ci, resolved, after, rpc>>
    /\ Track

\* main.py lines 108-111: client.delete_all_schedules(existing_schedules).
\* ShellyClient.delete_all_schedules takes no argument besides self, so the
\* call raises TypeError before the method body runs.
PurgeMain ==
    /\ pc = "purge"
    /\ entry = "main"
    /\ IF existing # <<>>
       THEN Fail("TypeError")
       ELSE /\ pc' = "sun"
            /\ UNCHANGED <<error, exit>>
    /\ UNCHANGED <<entry, yaml, device, nextId, existing, schedules, di, deleted_count,
                   sun_times, ci, resolved, after, rpc>>
    /\ Track

\* delete_all_schedules(): list the schedules, return 0 when there are none.
DeleteAllList ==
    /\ pc = "purge"
    /\ entry = "setup"
    /\ \E ok \in BOOLEAN :
        /\ rpc' = Append(rpc, ListCall(ok))
        /\ IF ok
           THEN /\ schedules' = device
                /\ deleted_count' = 0
                /\ di' = 1
                /\ pc' = IF device = <<>> THEN "sun" ELSE "purge_loop"
                /\ UNCHANGED <<error, exit>>
           ELSE /\ Fail("RpcFailed")
                /\ UNCHANGED <<schedules, deleted_count, di>>
    /\ UNCHANGED <<entry, yaml, device, nextId, existing, sun_times, ci, resolved, after>>
    /\ Track

\* A tally that counts the attempts instead of the successes.
Tally_CountsAttempts(count, ok) == count + 1

\* deleted_count += 1 runs only when delete_schedule returned without raising.
Tally(count, ok) == IF ok THEN count + 1 ELSE count

\* A loop that stays on an entry until its call succeeds.
NextIndex_RetryOnFailure(i, ok) == IF ok THEN i + 1 ELSE i

\* The for loops take each entry once, whatever the call's outcome.
NextIndex(i, ok) == i + 1

\* A loop that counts an entry without id as deleted.
DeleteNext_CountsSkipped ==
    /\ pc = "purge_loop"
    /\ di <= Len(schedules)
    /\ LET schedule_id == schedules[di].id
       IN IF schedule_id # NoId
          THEN \E ok \in BOOLEAN :
                /\ ok => HasJob(device, schedule_id)
                /\ rpc' = Append(rpc, DeleteCall(schedule_id, ok))
                /\ device' = IF ok THEN RemoveJob(device, schedule_id) ELSE device
                /\ deleted_count' = Tally(deleted_count, ok)
                /\ di' = NextIndex(di, ok)
          ELSE /\ di' = NextIndex(di, TRUE)
               /\ deleted_count' = deleted_count + 1
               /\ UNCHANGED <<rpc, device>>
    /\ pc' = IF di' > Len(schedules) THEN "sun" ELSE "purge_loop"
    /\ UNCHANGED <<entry, yaml, nextId, existing, schedules, sun_times, ci, resolved,
                   after, error, exit>>
    /\ Track

\* A loop that does not move on from an entry without id.
DeleteNext_StuckOnMissingId ==
    /\ pc = "purge_loop"
    /\ di <= Len(schedules)
    /\ LET schedule_id == schedules[di].id
       IN IF schedule_id # NoId
          THEN \E ok \in BOOLEAN :
                /\ ok => HasJob(device, schedule_id)
                /\ rpc' = Append(rpc, DeleteCall(schedule_id, ok))
                /\ device' = IF ok THEN RemoveJob(device, schedule_id) ELSE device
                /\ deleted_count' = Tally(deleted_count, ok)
                /\ di' = di + 1
          ELSE /\ di' = di
               /\ UNCHANGED <<rpc, device, deleted_count>>
    /\ pc' = IF di' > Len(schedules) THEN "sun" ELSE "purge_loop"
    /\ UNCHANGED <<entry, yaml, nextId, existing, schedules, sun_times, ci, resolved,
                   after, error, exit>>
    /\ Track

\* delete_all_schedules(): one iteration of the loop over the listed
\* schedules; the last iteration returns the tally to main().
DeleteNext ==
    /\ pc = "purge_loop"
    /\ di <= Len(schedules)
    /\ LET schedule_id == schedules[di].id
       IN IF schedule_id # NoId
          THEN \E ok \in BOOLEAN :
                /\ ok => HasJob(device, schedule_id)
                /\ rpc' = Append(rpc, DeleteCall(schedule_id, ok))
                /\ device' = IF ok THEN RemoveJob(device, schedule_id) ELSE device
                /\ deleted_count' = Tally(deleted_count, ok)
                /\ di' = NextIndex(di, ok)
          ELSE /\ di' = NextIndex(di, TRUE)
               /\ UNCHANGED <<rpc, device, deleted_count>>
    /\ pc' = IF di' > Len(schedules) THEN "sun" ELSE "purge_loop"
    /\ UNCHANGED <<entry, yaml, nextId, existing, schedules, sun_times, ci, resolved,
                   after, error, exit>>
    /\ Track

\* calculate_sun_times / calculate_schedule_times: ZoneInfo(timezone) raises
\* for an unknown zone name.
CalculateSunTimes ==
    /\ pc = "sun"
    /\ IF Config.timezone \in KnownZones
       THEN /\ sun_times' \in SunTimesSet
            /\ ci' = 1
            /\ pc' = IF get_schedules = <<>> THEN "verify" ELSE "create"
            /\ UNCHANGED <<error, exit>>
       ELSE /\ Fail("ResolutionError")
            /\ UNCHANGED <<sun_times, ci>>
    /\ UNCHANGED <<entry, yaml, device, nextId, existing, schedules, di, deleted_count,
                   resolved, after, rpc>>
    /\ Track

\* The comparison made against the wrong action.
TurnOn_Inverted(schedule) == schedule.action = "off"

\* turn_on = schedule.action == "on"
TurnOn(schedule) == schedule.action = "on"

\* A create loop that swallows the exception and goes on with the next
\* definition.
CreateFailed_Continue ==
    /\ ci' = ci + 1
    /\ pc' = IF ci' > Len(get_schedules) THEN "verify" ELSE "create"
    /\ UNCHANGED <<device, nextId, resolved, error, exit>>

\* A create failure answered by purging the device again.
CreateFailed_PurgeAgain ==
    /\ pc' = "purge"
    /\ UNCHANGED <<device, nextId, resolved, ci, error, exit>>

\* An exception raised by create_schedule leaves the loop and main()'s try
\* block: the handler logs it and exits with status 1.
CreateFailed ==
    /\ Fail("RpcFailed")
    /\ UNCHANGED <<device, nextId, resolved, ci>>

\* create_schedules / create_recurring_schedules: one iteration of the loop
\* over config.get_schedules().
CreateNext ==
    /\ pc = "create"
    /\ ci <= Len(get_schedules)
    /\ \E schedule \in {get_schedules[ci]} :
       \E schedule_time \in {calculate_schedule_time(schedule, sun_times, Config.timezone)} :
       LET cron          == time_to_cron(schedule_time.instant)
           turn_on       == TurnOn(schedule)
       IN IF ~schedule_time.ok
          THEN /\ Fail("ResolutionError")
               /\ UNCHANGED <<rpc, device, nextId, resolved, ci>>
          ELSE \E ok \in BOOLEAN :
                /\ rpc' = Append(rpc, CreateCall(IF ok THEN nextId ELSE NoId, cron,
                                                 SwitchArg, turn_on, ci, ok))
                /\ IF ok
                   THEN /\ device' = Append(device, NewJob(nextId, cron, SwitchArg, turn_on))
                        /\ nextId' = nextId + 1
                        /\ resolved' = Append(resolved,
                                              <<schedule_time.instant,
                                                IF turn_on THEN "ON" ELSE "OFF">>)
                        /\ ci' = NextIndex(ci, ok)
                        /\ pc' = IF ci' > Len(get_schedules) THEN "verify" ELSE "create"
                        /\ UNCHANGED <<error, exit>>
                   ELSE CreateFailed
    /\ UNCHANGED <<entry, yaml, existing, schedules, di, deleted_count, sun_times, after>>
    /\ Track

\* A comparison that only rejects too few schedules.
CountMatches_AtLeast(found, expected) == found >= expected

\* len(schedules_after) != expected_count is the mismatch.
CountMatches(found, expected) == found = expected

\* A verification that deletes a surplus schedule and checks again.
VerifySchedules_SelfCorrect ==
    /\ pc = "verify"
    /\ \E ok \in BOOLEAN :
        /\ IF ok
           THEN /\ after' = <<device>>
                /\ IF CountMatches(Len(device), Len(get_schedules))
                   THEN /\ pc' = "summary"
                        /\ rpc' = Append(rpc, ListCall(ok))
                        /\ UNCHANGED <<error, exit, device>>
                   ELSE IF Len(device) > Len(get_schedules)
                   THEN /\ pc' = "verify"
                        /\ rpc' = rpc \o <<ListCall(ok), DeleteCall(Head(device).id, TRUE)>>
                        /\ device' = Tail(device)
                        /\ UNCHANGED <<error, exit>>
                   ELSE /\ Fail("VerificationMismatch")
                        /\ rpc' = Append(rpc, ListCall(ok))
                        /\ UNCHANGED device
           ELSE /\ Fail("RpcFailed")
                /\ rpc' = Append(rpc, ListCall(ok))
                /\ UNCHANGED <<after, device>>
    /\ UNCHANGED <<entry, yaml, nextId, existing, schedules, di, deleted_count,
                   sun_times, ci, resolved>>
    /\ Track

\* verify_schedules: list again and compare the count with the configuration.
VerifySchedules ==
    /\ pc = "verify"
    /\ \E ok \in BOOLEAN :
        /\ rpc' = Append(rpc, ListCall(ok))
        /\ IF ok
           THEN /\ after' = <<device>>
                /\ IF CountMatches(Len(device), Len(get_schedules))
                   THEN /\ pc' = "summary"
                        /\ UNCHANGED <<error, exit>>
                   ELSE Fail("VerificationMismatch")
           ELSE /\ Fail("RpcFailed")
                /\ UNCHANGED after
    /\ UNCHANGED <<entry, yaml, device, nextId, existing, schedules, di, deleted_count,
                   sun_times, ci, resolved>>
    /\ Track

\* show_summary, then main() returns and the process exits with status 0.
ShowSummary ==
    /\ pc = "summary"
    /\ pc' = "done"
    /\ exit' = <<0>>
    /\ UNCHANGED <<entry, yaml, device, nextId, existing, schedules, di, deleted_count,
                   sun_times, ci, resolved, after, rpc, error>>
    /\ Track

Next ==
    \/ Boot
    \/ LoadConfig
    \/ GetDeviceInfo
    \/ ShowExisting
    \/ PurgeMain
    \/ DeleteAllList
    \/ DeleteNext
    \/ CalculateSunTimes
    \/ CreateNext
    \/ VerifySchedules
    \/ ShowSummary

Spec == Init /\ [][Next]_vars

TypeOK ==
    /\ entry \in {"main", "setup"}
    /\ pc \in {"boot", "load", "get_info", "snapshot", "purge", "purge_loop", "sun",
               "create", "verify", "summary", "done", "failed"}
    /\ exit \in {<<>>, <<0>>, <<1>>}
    /\ Len(after) <= 1
    /\ phases[Len(phases)] = Phase
    /\ deleted_count \in 0..Len(schedules)

-----------------------------------------------------------------------------
(* Reading the call history *)

Range(q) == {q[k] : k \in 1..Len(q)}

IsDelete(c) == c.method = "Schedule.Delete"
IsCreate(c) == c.method = "Schedule.Create"
IsList(c) == c.method = "Schedule.List"

DeleteCalls == SelectSeq(rpc, IsDelete)
CreateCalls == SelectSeq(rpc, IsCreate)
ListCalls == SelectSeq(rpc, IsList)

\* Positions in the history of the calls of one kind.
DeletePositions == {k \in 1..Len(rpc) : IsDelete(rpc[k])}
CreatePositions == {k \in 1..Len(rpc) : IsCreate(rpc[k])}

Terminated == exit # <<>>

\* The run's configured schedule count.
ExpectedCount == Len(get_schedules)

-----------------------------------------------------------------------------
(* C1 *)

\* C1: the run ends in DONE with exit status 0 only if the list call made in
\* VERIFY returned exactly as many schedules as are configured; when it
\* returned any other count the run ends as a verification failure with
\* exit status 1.
C1_DoneOnlyOnExactCount ==
    /\ pc = "done" =>
        /\ exit = <<0>>
        /\ Len(after) = 1
        /\ Len(after[1]) = ExpectedCount
    /\ (Len(after) = 1 /\ Len(after[1]) # ExpectedCount) =>
        /\ pc = "failed"
        /\ error = "VerificationMismatch"
        /\ exit = <<1>>

\* A run that created its 2 schedules on top of an undeleted stale one: VERIFY
\* saw 3 and failed.
C1_Witness ==
    /\ ExpectedCount = 2
    /\ Len(after) = 1
    /\ Len(after[1]) = 3
    /\ error = "VerificationMismatch"
    /\ exit = <<1>>

-----------------------------------------------------------------------------
(* C2 *)

\* Every stale schedule the device held carries an id.
AllHaveIds(store) == \A k \in 1..Len(store) : store[k].id # NoId

\* Every schedule definition of the configuration resolves to a trigger.
Resolvable ==
    /\ from_yaml(yaml).ok
    /\ Config.timezone \in KnownZones
    /\ \A k \in 1..Len(get_schedules), st \in SunTimesSet :
          calculate_schedule_time(get_schedules[k], st, Config.timezone).ok

AllCallsOk == \A k \in 1..Len(rpc) : rpc[k].ok

\* The jobs this run created, in creation order.
CreatedJobs ==
    [k \in 1..Len(CreateCalls) |->
        NewJob(CreateCalls[k].id, CreateCalls[k].timespec, CreateCalls[k].switch,
               CreateCalls[k].on)]

\* C2: with every RPC succeeding, a run over a device holding k stale
\* schedules ends in DONE having issued k delete calls and n create calls,
\* the device holding exactly the n schedules created in the run.
C2_ReplacesAllSchedules ==
    (Terminated /\ Resolvable /\ AllCallsOk /\ AllHaveIds(existing)) =>
        /\ pc = "done"
        /\ Len(DeleteCalls) = Len(existing)
        /\ Len(CreateCalls) = ExpectedCount
        /\ device = CreatedJobs

-----------------------------------------------------------------------------
(* C3 *)

FailedDeletes == {k \in DeletePositions : ~rpc[k].ok}
SucceededDeletes == {k \in DeletePositions : rpc[k].ok}

\* Every listed schedule that has an id has had its delete call.
AllListedAttempted ==
    \A j \in 1..Len(schedules) :
        schedules[j].id # NoId => \E k \in DeletePositions : rpc[k].id = schedules[j].id

\* C3: once a delete call has failed during PURGE the run is not aborted by
\* it: the loop goes on, and when it has ended every listed schedule has
\* been attempted, the tally equals the number of delete calls that
\* succeeded, and the workflow has moved on to RESOLVE_AND_CREATE.
C3_DeleteFailureNotFatal ==
    FailedDeletes # {} =>
        /\ deleted_count = Cardinality(SucceededDeletes)
        /\ \/ pc = "purge_loop"
           \/ /\ AllListedAttempted
              /\ "RESOLVE_AND_CREATE" \in Range(phases)

\* 1 of 3 deletes failed, the tally is 2 and the workflow is creating.
C3_Witness ==
    /\ Len(schedules) = 3
    /\ Cardinality(FailedDeletes) = 1
    /\ Len(DeleteCalls) = 3
    /\ deleted_count = 2
    /\ Phase = "RESOLVE_AND_CREATE"

-----------------------------------------------------------------------------
(* C4 *)

\* The SNAPSHOT list call is the first Schedule.List call of the run.
SnapshotSucceeded == Len(ListCalls) >= 1 /\ ListCalls[1].ok

\* C4: when the SNAPSHOT list succeeded, then by the time the workflow has
\* left PURGE every schedule captured in SNAPSHOT has had its delete call,
\* and each of those calls precedes every create call.
C4_PurgeDeletesSnapshot ==
    (SnapshotSucceeded /\ Phase \notin {"START", "SNAPSHOT", "PURGE"}) =>
        /\ \A j \in 1..Len(existing) :
              existing[j].id # NoId =>
                  \E k \in DeletePositions : rpc[k].id = existing[j].id
        /\ \A d \in DeletePositions, c \in CreatePositions : d < c

-----------------------------------------------------------------------------
(* C5 *)

\* C5: a failed create call is the last call of the run: the workflow is
\* FAILED with exit status 1, no later create, no delete (rollback) and no
\* VERIFY list follows, and the schedules created before it are still on the
\* device.
C5_CreateFailureIsFatal ==
    \A k \in CreatePositions :
        ~rpc[k].ok =>
            /\ k = Len(rpc)
            /\ pc = "failed"
            /\ exit = <<1>>
            /\ after = <<>>
            /\ "VERIFY" \notin Range(phases)
            /\ \A j \in CreatePositions : j < k => HasJob(device, rpc[j].id)

\* The second of two creates failed; the first created schedule remains.
C5_Witness ==
    /\ Len(CreateCalls) = 2
    /\ CreateCalls[1].ok
    /\ ~CreateCalls[2].ok
    /\ ExpectedCount > 2
    /\ HasJob(device, CreateCalls[1].id)
    /\ pc = "failed"

-----------------------------------------------------------------------------
(* C6 *)

\* The recurrence expression the i-th schedule definition resolves to.
ExpectedCron(i) ==
    time_to_cron(calculate_schedule_time(get_schedules[i], sun_times, Config.timezone).instant)

\* C6: in a run where every create succeeded (the workflow has reached
\* VERIFY) there is exactly one create call per schedule definition, in the
\* declared order, the i-th carrying the i-th definition's recurrence
\* expression and turn_on = TRUE exactly when its action is "on".
C6_OneCreatePerSpecInOrder ==
    "VERIFY" \in Range(phases) =>
        /\ Len(CreateCalls) = ExpectedCount
        /\ \A i \in 1..Len(CreateCalls) :
              /\ CreateCalls[i].ok
              /\ CreateCalls[i].spec = i
              /\ CreateCalls[i].timespec = ExpectedCron(i)
              /\ CreateCalls[i].on = (get_schedules[i].action = "on")

\* Two definitions with different actions were created, in order.
C6_Witness ==
    /\ pc = "verify"
    /\ Len(CreateCalls) = 2
    /\ get_schedules[1].action = "on"
    /\ get_schedules[2].action = "off"
    /\ CreateCalls[1].on
    /\ ~CreateCalls[2].on
    /\ CreateCalls[1].timespec # CreateCalls[2].timespec

-----------------------------------------------------------------------------
(* C7 *)

\* C7: a run that failed with a schedule-resolution error has issued no
\* delete call and no create call.
C7_ResolutionErrorBeforeMutation ==
    error = "ResolutionError" => (DeletePositions = {} /\ CreatePositions = {})

-----------------------------------------------------------------------------
(* C8 *)

\* A configuration with a mandatory field missing or a coordinate out of range.
BadConfiguration ==
    \/ ~yaml.exists
    \/ ~(Required \subseteq DOMAIN yaml.data)
    \/ yaml.data["latitude"] < -90
    \/ yaml.data["latitude"] > 90
    \/ yaml.data["longitude"] < -180
    \/ yaml.data["longitude"] > 180

\* C8: with such a configuration the process sends no RPC at all and, once
\* the configuration has been read, has exited with status 1.
C8_BadConfigNoDeviceContact ==
    BadConfiguration =>
        /\ rpc = <<>>
        /\ pc \in {"boot", "failed"}
        /\ pc = "failed" => (exit = <<1>> /\ error = "ConfigInvalid")

\* Startup was aborted for latitude 91.
C8_Witness ==
    /\ yaml.exists
    /\ Required \subseteq DOMAIN yaml.data
    /\ yaml.data["latitude"] = 91
    /\ pc = "failed"
    /\ exit = <<1>>
    /\ rpc = <<>>

-----------------------------------------------------------------------------
(* C9 *)

\* C9: the exit status is 0 exactly when the workflow reached DONE, and a
\* run ended by a fatal error has exit status 1.
C9_ExitStatus ==
    /\ exit = <<0>> <=> Phase = "DONE"
    /\ (Phase = "FAILED" \/ error # "none") => exit = <<1>>
    /\ Terminated <=> Phase \in {"DONE", "FAILED"}

\* A run ended by a failed RPC with a non-zero status.
C9_Witness ==
    /\ Phase = "FAILED"
    /\ error = "RpcFailed"
    /\ exit = <<1>>

-----------------------------------------------------------------------------
(* C10 *)

\* C10: no call is retried: at most one delete call per remote schedule id
\* and at most one create call per schedule definition, failed or not.
C10_NoRetry ==
    /\ \A a, b \in DeletePositions : rpc[a].id = rpc[b].id => a = b
    /\ \A a, b \in CreatePositions : rpc[a].spec = rpc[b].spec => a = b

\* A failed delete and a failed create, each issued once.
C10_Witness ==
    /\ \E k \in DeletePositions : ~rpc[k].ok
    /\ \E k \in CreatePositions : ~rpc[k].ok
    /\ Terminated

-----------------------------------------------------------------------------
(* C11 *)

\* The phases of a run that does not fail, in their order.
PhaseOrder == <<"START", "SNAPSHOT", "PURGE", "RESOLVE_AND_CREATE", "VERIFY", "DONE">>

IsPrefix(p, q) == Len(p) <= Len(q) /\ \A k \in 1..Len(p) : p[k] = q[k]

\* The phases visited so far, the final FAILED left out.
PhasesBeforeFailure ==
    IF phases[Len(phases)] = "FAILED" THEN SubSeq(phases, 1, Len(phases) - 1) ELSE phases

\* C11: the phases of a run are visited in the order START, SNAPSHOT, PURGE,
\* RESOLVE_AND_CREATE, VERIFY, DONE, none skipped and none revisited; FAILED
\* can only follow one of the phases before DONE; no step leaves DONE or
\* FAILED.
C11_PhaseOrder ==
    /\ [](/\ IsPrefix(PhasesBeforeFailure, PhaseOrder)
          /\ phases[Len(phases)] = "FAILED" => "DONE" \notin Range(phases))
    /\ [][Phase \notin {"DONE", "FAILED"}]_vars

\* A run that went through every phase up to VERIFY and failed there.
C11_Witness ==
    phases = <<"START", "SNAPSHOT", "PURGE", "RESOLVE_AND_CREATE", "VERIFY", "FAILED">>

-----------------------------------------------------------------------------
(* Runs over a wide range of schedule definitions *)

\* Offsets, in minutes: none, small, and large enough to cross midnight in
\* either direction from either sun time, also by more than a day.
ResolveOffsets == {-1441, -1440, -400, -373, -372, -30, -1, 0, 1, 45, 259, 260,
                   300, 1440, 2000}

\* Texts of the time field that are not "sunrise" or "sunset".
ClockTimes ==
    { <<"2", "2", ":", "3", "0">>,
      <<"0", "0", ":", "0", "0">>,
      <<"2", "3", ":", "5", "9">>,
      <<"7", ":", "0", "5">>,
      <<"0", "9", ":", "7">>,
      <<"2", "5", ":", "6", "1">>,
      <<"2", "4", ":", "0", "0">>,
      <<"1", "2", ":", "6", "0">>,
      <<"-", "1", ":", "3", "0">>,
      <<"1", "2", ":", "3", "0", ":", "0", "0">>,
      <<"1", "2">>,
      <<"1", "2", ":">>,
      <<":", "3", "0">>,
      <<"n", "o", "o", "n">>,
      <<"S", "u", "n", "r", "i", "s", "e">>,
      <<>> }

ClockOffsets == {-600, 0, 15}

ResolveSchedules ==
    {[time |-> t, action |-> a, offset |-> o] :
        t \in {SUNRISE, SUNSET}, a \in {"on"}, o \in ResolveOffsets}
    \cup {[time |-> t, action |-> a, offset |-> o] :
        t \in ClockTimes, a \in {"off"}, o \in ClockOffsets}

\* Configurations of one schedule definition each, and one of two
\* definitions that cross midnight in opposite directions.
ResolveYamlFiles ==
    {[exists |-> TRUE, data |-> [Nominal EXCEPT !.schedules = <<sch>>]] :
        sch \in ResolveSchedules}
    \cup {[exists |-> TRUE,
           data |-> [Nominal EXCEPT !.schedules =
                        <<[time |-> SUNRISE, action |-> "off", offset |-> -400],
                          [time |-> SUNSET, action |-> "on", offset |-> 300]>>]]}

InitResolve ==
    /\ entry \in {"main", "setup"}
    /\ yaml \in ResolveYamlFiles
    /\ device \in {store \in StaleStores : Len(store) <= 1}
    /\ nextId = Len(device) + 1
    /\ pc = "boot"
    /\ existing = <<>>
    /\ schedules = <<>>
    /\ di = 1
    /\ deleted_count = 0
    /\ sun_times = [sunrise |-> 0, sunset |-> 0]
    /\ ci = 1
    /\ resolved = <<>>
    /\ after = <<>>
    /\ rpc = <<>>
    /\ error = "none"
    /\ phases = <<"START">>
    /\ exit = <<>>

SpecResolve == InitResolve /\ [][Next]_vars

\* sun_times[schedule.time] for a sunrise/sunset definition.
BaseTime(schedule) ==
    IF schedule.time = SUNRISE THEN sun_times.sunrise ELSE sun_times.sunset

IsSunRelative(schedule) == schedule.time \in {SUNRISE, SUNSET}

-----------------------------------------------------------------------------
(* C12 *)

\* C12: the trigger instant resolved for a sunrise/sunset definition with
\* offset o is the sun time of that name plus exactly o minutes.
C12_SunOffsetExact ==
    \A i \in 1..Len(resolved) :
        IsSunRelative(get_schedules[i]) =>
            resolved[i][1] - BaseTime(get_schedules[i])
                = get_schedules[i].offset * SecondsPerMinute

\* A sunrise trigger resolved 400 minutes before sunrise and a sunset
\* trigger 300 minutes after sunset.
C12_Witness ==
    /\ Len(resolved) = 2
    /\ get_schedules[1].time = SUNRISE /\ get_schedules[1].offset = -400
    /\ get_schedules[2].time = SUNSET /\ get_schedules[2].offset = 300
    /\ resolved[1][1] < sun_times.sunrise
    /\ resolved[2][1] > sun_times.sunset

-----------------------------------------------------------------------------
(* C13 *)

\* n written with two digits.
TwoDigits(n) == IF n < 10 THEN <<"0">> \o IntToStr(n) ELSE IntToStr(n)

\* The ways of writing h:m as a clock literal, with or without a leading zero.
ClockTexts(h, m) ==
    {hh \o <<":">> \o mm : hh \in {IntToStr(h), TwoDigits(h)},
                           mm \in {IntToStr(m), TwoDigits(m)}}

\* Every valid clock literal with the hour and minute it denotes.
ClockTable ==
    UNION {{<<text, hm[1], hm[2]>> : text \in ClockTexts(hm[1], hm[2])} :
              hm \in (0..23) \X (0..59)}

\* The (hour, minute) pairs a text is a valid clock literal of.
ClockOf(text) == {<<e[2], e[3]>> : e \in {x \in ClockTable : x[1] = text}}

IsClockLiteral(text) == ClockOf(text) # {}

\* C13: the trigger resolved for a definition whose time is a valid HH:MM
\* literal has the literal's hour and minute and 0 seconds, whatever the
\* definition's offset.
C13_ClockLiteralIgnoresOffset ==
    \A i \in 1..Len(resolved) :
        \A hm \in ClockOf(get_schedules[i].time) :
            /\ HourOf(resolved[i][1]) = hm[1]
            /\ MinuteOf(resolved[i][1]) = hm[2]
            /\ resolved[i][1] % SecondsPerMinute = 0

\* "7:05" with offset -600 resolved to 07:05:00.
C13_Witness ==
    /\ Len(resolved) = 1
    /\ get_schedules[1].time = <<"7", ":", "0", "5">>
    /\ get_schedules[1].offset = -600
    /\ resolved[1][1] = 7 * SecondsPerHour + 5 * SecondsPerMinute

-----------------------------------------------------------------------------
(* C14 *)

\* The create calls issued for the i-th schedule definition.
CreatesFor(i) == {k \in CreatePositions : rpc[k].spec = i}

-----------------------------------------------------------------------------
(* C15 *)

\* The whitespace-separated fields of a recurrence expression.
Fields(timespec) == Split(timespec, " ")

\* C15: every recurrence expression sent to the device has six fields:
\* "0", the minute and the hour of the resolved instant's wall-clock time
\* (read back as numbers), and three "*".
C15_CronRoundTrip ==
    \A k \in CreatePositions :
        LET f == Fields(rpc[k].timespec)
            t == calculate_schedule_time(get_schedules[rpc[k].spec], sun_times,
                                         Config.timezone).instant
        IN /\ Len(f) = 6
           /\ f[1] = <<"0">>
           /\ f[4] = <<"*">> /\ f[5] = <<"*">> /\ f[6] = <<"*">>
           /\ ParseInt(f[2]).ok /\ ParseInt(f[2]).value = (t \div 60) % 60
           /\ ParseInt(f[3]).ok /\ ParseInt(f[3]).value = (t \div 3600) % 24
           /\ rpc[k].ok => resolved[rpc[k].spec][1] = t

\* Sunrise at 06:12 with offset 0 was sent as "0 12 6 * * *".
C15_Witness ==
    \E k \in CreatePositions :
        /\ get_schedules[rpc[k].spec].time = SUNRISE
        /\ get_schedules[rpc[k].spec].offset = 0
        /\ sun_times.sunrise \div 60 = 6 * 60 + 12
        /\ rpc[k].timespec = <<"0", " ", "1", "2", " ", "6", " ", "*", " ", "*", " ", "*">>

-----------------------------------------------------------------------------
(* C20 *)

MinutesPerDay == HoursPerDay * MinutesPerHour

\* The minute of the day of an instant that lies within today.
MinuteOfDay(t) == t \div 60

\* The instant of a sunrise/sunset definition lies on another day than its
\* sun time.
CrossesMidnight(schedule) ==
    LET target == MinuteOfDay(BaseTime(schedule)) + schedule.offset
    IN target < 0 \/ target >= MinutesPerDay

\* C20: a create call for a sunrise/sunset definition carries the wall-clock
\* time (base minute of day + offset) modulo 1440, with hour in 0..23 and
\* minute in 0..59, and a definition whose offset crosses midnight resolves
\* without error.
C20_OffsetWrapsAroundMidnight ==
    /\ \A k \in CreatePositions :
          LET schedule == get_schedules[rpc[k].spec]
              f        == Fields(rpc[k].timespec)
              hour     == ParseInt(f[3]).value
              minute   == ParseInt(f[2]).value
          IN IsSunRelative(schedule) =>
                /\ hour \in 0..23
                /\ minute \in 0..59
                /\ hour * 60 + minute
                     = (MinuteOfDay(BaseTime(schedule)) + schedule.offset) % MinutesPerDay
    /\ \A i \in 1..Len(get_schedules) :
          (IsSunRelative(get_schedules[i]) /\ error = "ResolutionError") => ci # i

\* Both directions in one run: sunrise - 400 min lands on the previous
\* evening, sunset + 300 min after midnight.
C20_Witness ==
    /\ Len(CreateCalls) = 2
    /\ CrossesMidnight(get_schedules[1]) /\ get_schedules[1].offset < 0
    /\ CrossesMidnight(get_schedules[2]) /\ get_schedules[2].offset > 0
    /\ ParseInt(Fields(CreateCalls[1].timespec)[3]).value >= 12
    /\ ParseInt(Fields(CreateCalls[2].timespec)[3]).value < 12
    /\ CreateCalls[1].ok /\ CreateCalls[2].ok

-----------------------------------------------------------------------------
(* C16 *)

\* The workflow is past PURGE and a schedule listed in SNAPSHOT is still on
\* the device.
LeftUndeleted ==
    /\ Phase \notin {"START", "SNAPSHOT", "PURGE"}
    /\ \E j \in 1..Len(existing) : existing[j] \in Range(device)

\* C16: when a delete call failed or a listed schedule was left undeleted,
\* the run does not reach DONE: once all n creates are done the device holds
\* more than n schedules, and a VERIFY list that returns ends the run with a
\* verification mismatch.
C16_UndeletedNeverDone ==
    (FailedDeletes # {} \/ LeftUndeleted) =>
        /\ pc \notin {"summary", "done"}
        /\ exit # <<0>>
        /\ pc = "verify" => Len(device) > ExpectedCount
        /\ Len(after) = 1 =>
              /\ Len(after[1]) > ExpectedCount
              /\ error = "VerificationMismatch"
              /\ exit = <<1>>

\* One delete failed, every create succeeded, VERIFY found one schedule too
\* many.
C16_Witness ==
    /\ Cardinality(FailedDeletes) = 1
    /\ ExpectedCount > 0
    /\ Len(CreateCalls) = ExpectedCount
    /\ \A k \in CreatePositions : rpc[k].ok
    /\ Len(after) = 1
    /\ Len(after[1]) = ExpectedCount + 1
    /\ error = "VerificationMismatch"

-----------------------------------------------------------------------------
(* C17 *)

\* C17: when the SNAPSHOT list returned no schedules, no delete call is
\* issued and the empty result is not an error: the workflow goes on to
\* RESOLVE_AND_CREATE unless a later RPC call fails.
C17_EmptySnapshotIsValid ==
    (SnapshotSucceeded /\ existing = <<>>) =>
        /\ DeletePositions = {}
        /\ (Phase = "FAILED" /\ "RESOLVE_AND_CREATE" \notin Range(phases)) =>
              ~rpc[Len(rpc)].ok

\* The device was empty and the workflow has created a schedule.
C17_Witness ==
    /\ SnapshotSucceeded
    /\ existing = <<>>
    /\ DeletePositions = {}
    /\ \E k \in CreatePositions : rpc[k].ok

-----------------------------------------------------------------------------
(* C18 *)

\* The list call of VERIFY has been made.
VerifyListed == "VERIFY" \in Range(phases) /\ pc # "verify"

\* C18: from VERIFY on the device store is never changed and the only call
\* sent is the list call of VERIFY itself; after it no call follows, and a
\* returned list, matching or not, is what the device still holds.
C18_VerifyDoesNotCorrect ==
    /\ [][("VERIFY" \in Range(phases)) =>
            /\ device' = device
            /\ \/ rpc' = rpc
               \/ pc = "verify" /\ \E ok \in BOOLEAN : rpc' = Append(rpc, ListCall(ok))]_vars
    /\ [](VerifyListed =>
            /\ IsList(rpc[Len(rpc)])
            /\ Len(after) = 1 => device = after[1]
            /\ (Len(after) = 1 /\ Len(after[1]) # ExpectedCount) =>
                  error = "VerificationMismatch")

\* VERIFY found a stale schedule next to the created ones; it is still there
\* after the run has ended.
C18_Witness ==
    /\ Terminated
    /\ error = "VerificationMismatch"
    /\ Len(after) = 1
    /\ device = after[1]
    /\ \E j \in 1..Len(existing) : existing[j] \in Range(device)

-----------------------------------------------------------------------------
(* C19 *)

\* Configured lists for the runs checked for termination: n definitions that
\* alternate a sun-relative and a clock definition; with bad, the last one
\* is a clock text out of range.
FairSchedules(n, bad) ==
    [k \in 1..n |->
        IF bad /\ k = n THEN [time |-> <<"2", "5", ":", "6", "1">>, action |-> "on", offset |-> 0]
        ELSE IF k % 2 = 1 THEN [time |-> SUNSET, action |-> "on", offset |-> -30]
        ELSE [time |-> <<"2", "2", ":", "3", "0">>, action |-> "off", offset |-> 15]]

\* Configurations of every length up to MaxSpecs, one that fails validation
\* and one with an unknown time zone.
FairYamlFiles ==
    {[exists |-> TRUE, data |-> [Nominal EXCEPT !.schedules = FairSchedules(n, bad)]] :
        n \in 0..MaxSpecs, bad \in BOOLEAN}
    \cup {[exists |-> TRUE, data |-> [Nominal EXCEPT !.latitude = 91]],
          [exists |-> TRUE, data |-> [Nominal EXCEPT !.timezone = "Mars/Olympus"]]}

\* Both scripts, every snapshot of up to MaxStale jobs.
InitFair ==
    /\ entry \in {"main", "setup"}
    /\ yaml \in FairYamlFiles
    /\ device \in StaleStores
    /\ nextId = Len(device) + 1
    /\ pc = "boot"
    /\ existing = <<>>
    /\ schedules = <<>>
    /\ di = 1
    /\ deleted_count = 0
    /\ sun_times = [sunrise |-> 0, sunset |-> 0]
    /\ ci = 1
    /\ resolved = <<>>
    /\ after = <<>>
    /\ rpc = <<>>
    /\ error = "none"
    /\ phases = <<"START">>
    /\ exit = <<>>

\* The scripts are single-threaded and every RPC call returns, so a run that
\* can take its next step eventually takes it.
FairSpec == InitFair /\ [][Next]_vars /\ WF_vars(Next)

\* C19: every run terminates, in DONE or in FAILED.
C19_Terminates == <>(Terminated /\ Phase \in {"DONE", "FAILED"})

\* A run that went through both loops to their end and terminated.
C19_Witness ==
    /\ Terminated
    /\ Len(schedules) = MaxStale
    /\ di > Len(schedules)
    /\ Len(CreateCalls) = ExpectedCount
    /\ ExpectedCount = MaxSpecs

-----------------------------------------------------------------------------
(* C21 *)

\* C21: every create call targets the switch identifier of the
\* configuration, config.switch_id, whatever its configured value.
C21_CreateTargetsConfiguredSwitch ==
    \A k \in CreatePositions : rpc[k].switch = Config.switch_id

-----------------------------------------------------------------------------
(* C22 *)

\* The listed schedules the delete loop has gone through so far.
Visited == 1..(di - 1)

\* C22: in delete_all_schedules a listed schedule without id is skipped: no
\* delete call is issued for it and it is not counted. There is one delete
\* call per visited schedule that has an id, the tally equals the number of
\* delete calls that returned without error, and it never exceeds the
\* number of listed schedules.
C22_MissingIdSkipped ==
    /\ \A k \in DeletePositions : rpc[k].id # NoId
    /\ Len(DeleteCalls) = Cardinality({j \in Visited : schedules[j].id # NoId})
    /\ deleted_count = Cardinality(SucceededDeletes)
    /\ deleted_count <= Len(schedules)

\* The loop ended over 3 listed schedules of which one had no id: 2 delete
\* calls, both succeeded, the tally is 2.
C22_Witness ==
    /\ Len(schedules) = 3
    /\ di > Len(schedules)
    /\ \E j \in 1..Len(schedules) : schedules[j].id = NoId
    /\ Len(DeleteCalls) = 2
    /\ FailedDeletes = {}
    /\ deleted_count = 2

====
